---- MODULE Spec2Model ----
(***************************************************************************)
(* The real-estate backend: the user controller (createUser, bookVisit,   *)
(* getAllBookings, cancelBooking, toFav, getAllFavorites), the residency   *)
(* controller (createResidency, getAllResidencies, getResidency) and the   *)
(* two collections of the Prisma schema they act on.                       *)
(*                                                                         *)
(* Every `await prisma...` is one atomic step of the document store; a     *)
(* handler with two awaits (a findUnique, then a create/update) is two     *)
(* steps, and steps of different requests interleave freely.               *)
(***************************************************************************)
EXTENDS Integers, Sequences, FiniteSets, TLC

\* ------------------------------------------------------------------ inputs
Emails == {"a@x", "b@x"}
Names == {"n1", "n2"}
ListingIds == {"r1", "r2"}
Dates == {"d1", "d2"}
Addresses == {"ad1", "ad2"}
Titles == {"t1", "t2"}
\* Request slots: requests the server is handling at the same time.
Procs == {1, 2}

\* ------------------------------------------------------------------ bounds
MaxVisits == 2
MaxFavs == 2
MaxResidencies == 3
MaxClock == 3

VARIABLES
  users,          \* the User collection: a set of user documents
  residencies,    \* the Residency collection: a set of residency documents
  now,            \* the store's clock (the value of now())
  serial,         \* workload: TRUE when each request awaits the previous response
  pc,             \* per slot: the handler in flight, or "idle"
  req,            \* per slot: the request's body and params
  snap,           \* per slot: what the handler's findUnique returned
  last,           \* the response the latest step sent (none when it sent none), with
                  \* the collections before and after that step
  bookedSince,    \* history: (email, id) booked successfully, no cancel for it since
  cancelledSince, \* history: (email, id) cancelled successfully, no bookVisit for it since
  cancelIssued,   \* history: (email, id) for which a cancelBooking was ever issued
  favPrev         \* history: membership of rid before the latest toFav(email, rid)

vars == <<users, residencies, now, serial, pc, req, snap, last,
          bookedSince, cancelledSince, cancelIssued, favPrev>>

\* ------------------------------------------------------- array helpers (JS)
\* Array.prototype.some((visit) => visit.id === id)
Some(visits, id) == \E i \in 1..Len(visits) : visits[i].id = id

\* Array.prototype.findIndex((visit) => visit.id === id): 0-based, -1 when absent
FindIndex(visits, id) ==
  IF Some(visits, id)
  THEN (CHOOSE i \in 1..Len(visits) :
          /\ visits[i].id = id
          /\ \A j \in 1..(i - 1) : visits[j].id # id) - 1
  ELSE -1

\* Mutant: splice(index) without a count, which drops everything from index on.
SpliceNoCount(visits, index) == SubSeq(visits, 1, index)

\* Array.prototype.splice(index, 1) on a 0-based index: the array without that element
Splice(visits, index) ==
  [i \in 1..(Len(visits) - 1) |-> IF i <= index THEN visits[i] ELSE visits[i + 1]]

\* Array.prototype.includes(rid)
Includes(favs, rid) == \E i \in 1..Len(favs) : favs[i] = rid

\* Array.prototype.filter((id) => id !== rid)
Filter(favs, rid) == SelectSeq(favs, LAMBDA x : x # rid)

\* ------------------------------------------------------------ the store
\* prisma.user.findUnique({where: {email}}): the matching documents (none = null)
Matching(us, email) == {u \in us : u.email = email}

\* What a handler holds after its findUnique: found = FALSE stands for null.
NullSnap == [found |-> FALSE, bookedVisits |-> <<>>, favResidenciesID |-> <<>>]

FindUnique(us, email) ==
  IF Matching(us, email) = {}
  THEN NullSnap
  ELSE LET u == CHOOSE x \in Matching(us, email) : TRUE
       IN  [found |-> TRUE, bookedVisits |-> u.bookedVisits,
            favResidenciesID |-> u.favResidenciesID]

\* Mutant: no unique index on email, so a create never fails on a stored email.
EmailNeverTaken(us, email) == FALSE

\* model User: email is @unique, so a create with a stored email fails (P2002)
EmailTaken(us, email) == Matching(us, email) # {}

\* prisma.user.create({data: req.body}): id auto-generated, both arrays empty
NewUser(us, email, name) ==
  [id |-> Cardinality(us) + 1, email |-> email, name |-> name,
   bookedVisits |-> <<>>, favResidenciesID |-> <<>>]

\* prisma.user.update with bookedVisits: {push: visit}: appends to the stored array
PushVisit(us, email, visit) ==
  {IF u.email = email
   THEN [u EXCEPT !.bookedVisits = Append(u.bookedVisits, visit)] ELSE u : u \in us}

\* prisma.user.update with bookedVisits: <array>: replaces the stored array
SetVisits(us, email, visits) ==
  {IF u.email = email THEN [u EXCEPT !.bookedVisits = visits] ELSE u : u \in us}

\* prisma.user.update with favResidenciesID: {push: rid}
PushFav(us, email, rid) ==
  {IF u.email = email
   THEN [u EXCEPT !.favResidenciesID = Append(u.favResidenciesID, rid)] ELSE u : u \in us}

\* prisma.user.update with favResidenciesID: {set: <array>}
SetFavs(us, email, favs) ==
  {IF u.email = email THEN [u EXCEPT !.favResidenciesID = favs] ELSE u : u \in us}

\* ------------------------------------------------------------ responses
\* res.send(...) leaves the status at 200; a thrown Error reaches the framework's
\* error handler, which answers 500 with the error's message.
Ok == 200
Thrown == 500

MsgRegistered == "User registered successfully"
MsgAlreadyRegistered == "User already registered"
MsgUniqueEmail == "Unique constraint failed on the fields: (email)"
MsgBooked == "Your visit is booked successfully"
MsgAlreadyBooked == "This residency is already booked by you"
MsgNotFound == "Booking not found"
MsgCancelled == "Booking cancelled successfully"
MsgRemovedFav == "Removed from favorites"
MsgUpdatedFav == "Updated favorites"
MsgNullDeref == "Cannot read properties of null"
MsgNoRecord == "Record to update not found"
MsgResidencyCreated == "Residency created successfully"
MsgUniqueAddress == "A residency with this address already exists"
MsgNoOwner == "No User record was found for a connect on Residency"
MsgNone == ""

Outcome(us, status, message) == [users |-> us, status |-> status, message |-> message]

\* ----------------------------------------------- handlers' second halves
\* Mutant: an upsert, which overwrites the stored name of a registered email.
CreateUserUpsert(us, r, s) ==
  IF ~s.found
  THEN IF EmailTaken(us, r.email)
       THEN Outcome(us, Thrown, MsgUniqueEmail)
       ELSE Outcome(us \cup {NewUser(us, r.email, r.name)}, Ok, MsgRegistered)
  ELSE Outcome({IF u.email = r.email THEN [u EXCEPT !.name = r.name] ELSE u : u \in us},
               201, MsgAlreadyRegistered)

\* createUser after its findUnique: create unless the lookup found the email.
CreateUserResult(us, r, s) ==
  IF ~s.found
  THEN IF EmailTaken(us, r.email)
       THEN Outcome(us, Thrown, MsgUniqueEmail)
       ELSE Outcome(us \cup {NewUser(us, r.email, r.name)}, Ok, MsgRegistered)
  ELSE Outcome(us, 201, MsgAlreadyRegistered)

\* Mutant: the duplicate check compares listing id and date, not the id alone.
BookVisitSameDateOnly(us, r, s) ==
  IF ~s.found
  THEN Outcome(us, Thrown, MsgNullDeref)
  ELSE IF \E i \in 1..Len(s.bookedVisits) :
            s.bookedVisits[i].id = r.id /\ s.bookedVisits[i].date = r.date
       THEN Outcome(us, 400, MsgAlreadyBooked)
       ELSE IF Matching(us, r.email) = {}
            THEN Outcome(us, Thrown, MsgNoRecord)
            ELSE Outcome(PushVisit(us, r.email, [id |-> r.id, date |-> r.date]),
                         Ok, MsgBooked)

\* Mutant: a guarded push, which repeats the duplicate check on the stored array
\* in the same store call as the push.
BookVisitGuardedPush(us, r, s) ==
  IF ~s.found
  THEN Outcome(us, Thrown, MsgNullDeref)
  ELSE IF Some(s.bookedVisits, r.id) \/ Some(FindUnique(us, r.email).bookedVisits, r.id)
       THEN Outcome(us, 400, MsgAlreadyBooked)
       ELSE IF Matching(us, r.email) = {}
            THEN Outcome(us, Thrown, MsgNoRecord)
            ELSE Outcome(PushVisit(us, r.email, [id |-> r.id, date |-> r.date]),
                         Ok, MsgBooked)

\* Mutant: a null lookup result is read as a user with no bookings
\* (alreadyBooked?.bookedVisits), so the handler goes on to the update.
BookVisitNullAsEmpty(us, r, s) ==
  IF Some(s.bookedVisits, r.id)
  THEN Outcome(us, 400, MsgAlreadyBooked)
  ELSE IF Matching(us, r.email) = {}
       THEN Outcome(us, Thrown, MsgNoRecord)
       ELSE Outcome(PushVisit(us, r.email, [id |-> r.id, date |-> r.date]),
                    Ok, MsgBooked)

\* bookVisit after its findUnique: the duplicate check runs on the snapshot, the
\* push on the stored array.
BookVisitResult(us, r, s) ==
  IF ~s.found
  THEN Outcome(us, Thrown, MsgNullDeref)
  ELSE IF Some(s.bookedVisits, r.id)
       THEN Outcome(us, 400, MsgAlreadyBooked)
       ELSE IF Matching(us, r.email) = {}
            THEN Outcome(us, Thrown, MsgNoRecord)
            ELSE Outcome(PushVisit(us, r.email, [id |-> r.id, date |-> r.date]),
                         Ok, MsgBooked)

\* Mutant: a pull in the store, which removes the first record for id from the
\* stored array instead of writing the snapshot back.
CancelBookingPull(us, r, s) ==
  IF ~s.found
  THEN Outcome(us, Thrown, MsgNullDeref)
  ELSE IF FindIndex(s.bookedVisits, r.id) = -1
       THEN Outcome(us, 404, MsgNotFound)
       ELSE LET stored == FindUnique(us, r.email).bookedVisits
                index == FindIndex(stored, r.id)
            IN  IF index = -1
                THEN Outcome(us, Ok, MsgCancelled)
                ELSE Outcome(SetVisits(us, r.email, Splice(stored, index)),
                             Ok, MsgCancelled)

\* cancelBooking after its findUnique: splices the snapshot and writes it back whole.
CancelBookingResult(us, r, s) ==
  IF ~s.found
  THEN Outcome(us, Thrown, MsgNullDeref)
  ELSE LET index == FindIndex(s.bookedVisits, r.id)
       IN  IF index = -1
           THEN Outcome(us, 404, MsgNotFound)
           ELSE IF Matching(us, r.email) = {}
                THEN Outcome(us, Thrown, MsgNoRecord)
                ELSE Outcome(SetVisits(us, r.email, Splice(s.bookedVisits, index)),
                             Ok, MsgCancelled)

\* Mutant: no membership test, every call pushes.
ToFavAlwaysPush(us, r, s) ==
  IF ~s.found
  THEN Outcome(us, Thrown, MsgNullDeref)
  ELSE IF Matching(us, r.email) = {}
       THEN Outcome(us, Thrown, MsgNoRecord)
       ELSE Outcome(PushFav(us, r.email, r.id), Ok, MsgUpdatedFav)

\* toFav after its findUnique: set the filtered snapshot, or push onto the stored array.
ToFavResult(us, r, s) ==
  IF ~s.found
  THEN Outcome(us, Thrown, MsgNullDeref)
  ELSE IF Includes(s.favResidenciesID, r.id)
       THEN IF Matching(us, r.email) = {}
            THEN Outcome(us, Thrown, MsgNoRecord)
            ELSE Outcome(SetFavs(us, r.email, Filter(s.favResidenciesID, r.id)),
                         Ok, MsgRemovedFav)
       ELSE IF Matching(us, r.email) = {}
            THEN Outcome(us, Thrown, MsgNoRecord)
            ELSE Outcome(PushFav(us, r.email, r.id), Ok, MsgUpdatedFav)

\* ------------------------------------------------------ residency store
\* Mutant: no unique index on (address, userEmail).
AddressNeverTaken(rs, address, userEmail) == FALSE

\* @@unique([address, userEmail]): a create with a stored pair fails (P2002)
AddressTaken(rs, address, userEmail) ==
  \E x \in rs : x.address = address /\ x.userEmail = userEmail

\* Mutant: userEmail stored as a plain field, with no relation to check.
OwnerUnchecked(us, userEmail) == TRUE

\* owner: {connect: {email: userEmail}}: the create fails unless that user exists
OwnerExists(us, userEmail) == Matching(us, userEmail) # {}

\* prisma.residency.create: id auto-generated, createdAt defaults to now()
NewResidency(rs, d, t) ==
  [id |-> Cardinality(rs) + 1, title |-> d.title, address |-> d.address,
   userEmail |-> d.userEmail, createdAt |-> t]

ResOutcome(rs, status, message) ==
  [residencies |-> rs, status |-> status, message |-> message]

\* createResidency: one create; P2002 is re-thrown with the address message, any
\* other error with its own message.
CreateResidencyResult(us, rs, d, t) ==
  IF ~OwnerExists(us, d.userEmail)
  THEN ResOutcome(rs, Thrown, MsgNoOwner)
  ELSE IF AddressTaken(rs, d.address, d.userEmail)
       THEN ResOutcome(rs, Thrown, MsgUniqueAddress)
       ELSE ResOutcome(rs \cup {NewResidency(rs, d, t)}, Ok, MsgResidencyCreated)

\* Mutant: orderBy createdAt "asc".
AscOrder(a, b) == a.createdAt <= b.createdAt

\* orderBy: {createdAt: "desc"}: a is not after b in the result
DescOrder(a, b) == a.createdAt >= b.createdAt

\* prisma.residency.findMany({orderBy: {createdAt: "desc"}}): every arrangement of
\* the collection that respects the order; documents with equal createdAt come
\* back in an order the store does not fix.
FindManyOrdered(rs) ==
  {s \in [1..Cardinality(rs) -> rs] :
     /\ \A i, j \in 1..Cardinality(rs) : i # j => s[i] # s[j]
     /\ \A i, j \in 1..Cardinality(rs) : i < j => DescOrder(s[i], s[j])}

\* prisma.residency.findUnique({where: {id}}): the document, or null (here <<>>)
FindResidency(rs, id) ==
  IF \E x \in rs : x.id = id THEN <<CHOOSE x \in rs : x.id = id>> ELSE <<>>

\* ------------------------------------------------------------ requests
\* A request: body and params of every route, "-" / 0 for the fields a route lacks;
\* registered records whether a user with the email existed when the call was made.
Request(email, id, date, name, resId, address, title) ==
  [email |-> email, id |-> id, date |-> date, name |-> name, resId |-> resId,
   address |-> address, title |-> title,
   registered |-> Matching(users, email) # {}]

NoReq ==
  [email |-> "-", id |-> "-", date |-> "-", name |-> "-", resId |-> 0,
   address |-> "-", title |-> "-", registered |-> FALSE]

NoLast ==
  [op |-> "none", req |-> NoReq, read |-> NullSnap, status |-> 0, message |-> MsgNone,
   pre |-> {}, post |-> {}, preRes |-> {}, postRes |-> {}, body |-> <<>>,
   booked |-> FALSE, prevFav |-> "unset"]

\* The stored arrays of the user with this email (empty when there is none).
VisitsOf(us, email) == FindUnique(us, email).bookedVisits
FavsOf(us, email) == FindUnique(us, email).favResidenciesID

\* Pushes still to come on this user's arrays: requests in flight whose findUnique
\* did not see their id.
PendingVisits(email) ==
  Cardinality({q \in Procs : /\ pc[q] = "bookVisit" /\ req[q].email = email
                             /\ snap[q].found
                             /\ ~Some(snap[q].bookedVisits, req[q].id)})
PendingFavs(email) ==
  Cardinality({q \in Procs : /\ pc[q] = "toFav" /\ req[q].email = email
                             /\ snap[q].found
                             /\ ~Includes(snap[q].favResidenciesID, req[q].id)})

\* A request takes the first free slot (slots are interchangeable); under a serial
\* workload, only when no other request is in flight.
CanIssue(p) ==
  /\ pc[p] = "idle"
  /\ \A q \in Procs : q < p => pc[q] # "idle"
  /\ serial => \A q \in Procs : pc[q] = "idle"

\* First half of a two-await handler: the findUnique.
Read(p, op, r) ==
  /\ CanIssue(p)
  /\ pc' = [pc EXCEPT ![p] = op]
  /\ req' = [req EXCEPT ![p] = r]
  /\ snap' = [snap EXCEPT ![p] = FindUnique(users, r.email)]
  /\ last' = NoLast
  /\ UNCHANGED <<users, residencies, now, serial>>

\* The response of a handler, and the record of it.
Respond(p, op, r, s, us, rs, status, message, body, prev) ==
  /\ users' = us
  /\ residencies' = rs
  /\ pc' = [pc EXCEPT ![p] = "idle"]
  /\ req' = [req EXCEPT ![p] = NoReq]
  /\ snap' = [snap EXCEPT ![p] = NullSnap]
  /\ last' = [op |-> op, req |-> r, read |-> s, status |-> status, message |-> message,
              pre |-> users, post |-> us, preRes |-> residencies, postRes |-> rs,
              body |-> body, booked |-> <<r.email, r.id>> \in bookedSince,
              prevFav |-> prev]
  /\ UNCHANGED <<now, serial>>

\* ------------------------------------------------------------ user routes
CreateUserLookup(p, email, name) ==
  /\ Read(p, "createUser", Request(email, "-", "-", name, 0, "-", "-"))
  /\ UNCHANGED <<bookedSince, cancelledSince, cancelIssued, favPrev>>

CreateUserFinish(p) ==
  /\ pc[p] = "createUser"
  /\ LET out == CreateUserResult(users, req[p], snap[p])
     IN  Respond(p, "createUser", req[p], snap[p], out.users, residencies,
                 out.status, out.message, <<>>, "unset")
  /\ UNCHANGED <<bookedSince, cancelledSince, cancelIssued, favPrev>>

BookVisitRead(p, email, id, date) ==
  /\ \/ Some(VisitsOf(users, email), id)
     \/ Len(VisitsOf(users, email)) + PendingVisits(email) < MaxVisits
  /\ Read(p, "bookVisit", Request(email, id, date, "-", 0, "-", "-"))
  /\ cancelledSince' = cancelledSince \ {<<email, id>>}
  /\ UNCHANGED <<bookedSince, cancelIssued, favPrev>>

BookVisitFinish(p) ==
  /\ pc[p] = "bookVisit"
  /\ LET out == BookVisitResult(users, req[p], snap[p])
         key == <<req[p].email, req[p].id>>
     IN  /\ Respond(p, "bookVisit", req[p], snap[p], out.users, residencies,
                    out.status, out.message, <<>>, "unset")
         /\ bookedSince' = IF out.status = Ok THEN bookedSince \cup {key} ELSE bookedSince
         /\ cancelledSince' = cancelledSince \ {key}
  /\ UNCHANGED <<cancelIssued, favPrev>>

\* getAllBookings: one findUnique, sent as it is (null for an unknown email).
GetAllBookings(p, email) ==
  /\ CanIssue(p)
  /\ LET r == Request(email, "-", "-", "-", 0, "-", "-")
         s == FindUnique(users, email)
     IN  Respond(p, "getAllBookings", r, s, users, residencies, Ok, MsgNone,
                 s.bookedVisits, "unset")
  /\ UNCHANGED <<bookedSince, cancelledSince, cancelIssued, favPrev>>

CancelBookingRead(p, email, id) ==
  /\ Read(p, "cancelBooking", Request(email, id, "-", "-", 0, "-", "-"))
  /\ bookedSince' = bookedSince \ {<<email, id>>}
  /\ cancelIssued' = cancelIssued \cup {<<email, id>>}
  /\ UNCHANGED <<cancelledSince, favPrev>>

CancelBookingFinish(p) ==
  /\ pc[p] = "cancelBooking"
  /\ LET out == CancelBookingResult(users, req[p], snap[p])
         key == <<req[p].email, req[p].id>>
     IN  /\ Respond(p, "cancelBooking", req[p], snap[p], out.users, residencies,
                    out.status, out.message, <<>>, "unset")
         /\ bookedSince' = bookedSince \ {key}
         /\ cancelledSince' =
              IF out.status = Ok /\ ~\E q \in Procs : /\ q # p
                                                      /\ pc[q] = "bookVisit"
                                                      /\ req[q].email = key[1]
                                                      /\ req[q].id = key[2]
              THEN cancelledSince \cup {key}
              ELSE cancelledSince
  /\ UNCHANGED <<cancelIssued, favPrev>>

ToFavRead(p, email, rid) ==
  /\ \/ Includes(FavsOf(users, email), rid)
     \/ Len(FavsOf(users, email)) + PendingFavs(email) < MaxFavs
  /\ Read(p, "toFav", Request(email, rid, "-", "-", 0, "-", "-"))
  /\ UNCHANGED <<bookedSince, cancelledSince, cancelIssued, favPrev>>

ToFavFinish(p) ==
  /\ pc[p] = "toFav"
  /\ LET out == ToFavResult(users, req[p], snap[p])
         key == <<req[p].email, req[p].id>>
         was == IF Includes(FavsOf(users, key[1]), key[2]) THEN "present" ELSE "absent"
     IN  /\ Respond(p, "toFav", req[p], snap[p], out.users, residencies,
                    out.status, out.message, <<>>, favPrev[key])
         /\ favPrev' = IF out.status = Ok THEN [favPrev EXCEPT ![key] = was] ELSE favPrev
  /\ UNCHANGED <<bookedSince, cancelledSince, cancelIssued>>

\* getAllFavorites: one findUnique, sent as it is.
GetAllFavorites(p, email) ==
  /\ CanIssue(p)
  /\ LET r == Request(email, "-", "-", "-", 0, "-", "-")
         s == FindUnique(users, email)
     IN  Respond(p, "getAllFavorites", r, s, users, residencies, Ok, MsgNone,
                 s.favResidenciesID, "unset")
  /\ UNCHANGED <<bookedSince, cancelledSince, cancelIssued, favPrev>>

\* ------------------------------------------------------- residency routes
CreateResidency(p, title, address, userEmail) ==
  /\ CanIssue(p)
  /\ Cardinality(residencies) < MaxResidencies
  /\ LET r == Request(userEmail, "-", "-", "-", 0, address, title)
         d == [title |-> title, address |-> address, userEmail |-> userEmail]
         out == CreateResidencyResult(users, residencies, d, now)
     IN  Respond(p, "createResidency", r, NullSnap, users, out.residencies,
                 out.status, out.message, <<>>, "unset")
  /\ UNCHANGED <<bookedSince, cancelledSince, cancelIssued, favPrev>>

GetAllResidencies(p) ==
  /\ CanIssue(p)
  /\ \E body \in FindManyOrdered(residencies) :
       Respond(p, "getAllResidencies", NoReq, NullSnap, users, residencies,
               Ok, MsgNone, body, "unset")
  /\ UNCHANGED <<bookedSince, cancelledSince, cancelIssued, favPrev>>

GetResidency(p, resId) ==
  /\ CanIssue(p)
  /\ LET r == Request("-", "-", "-", "-", resId, "-", "-")
     IN  Respond(p, "getResidency", r, NullSnap, users, residencies,
                 Ok, MsgNone, FindResidency(residencies, resId), "unset")
  /\ UNCHANGED <<bookedSince, cancelledSince, cancelIssued, favPrev>>

\* Time passes: now() returns a later instant.
Tick ==
  /\ now < MaxClock
  /\ now' = now + 1
  /\ last' = NoLast
  /\ UNCHANGED <<users, residencies, serial, pc, req, snap,
                 bookedSince, cancelledSince, cancelIssued, favPrev>>

\* ------------------------------------------------------------ the state
\* The shape of the two collections (the schema's models) and of the slots.
TypeOK ==
  /\ \A u \in users :
       /\ u.id \in 1..Cardinality(users)
       /\ u.email \in Emails
       /\ u.name \in Names
       /\ \A i \in 1..Len(u.bookedVisits) :
            u.bookedVisits[i].id \in ListingIds /\ u.bookedVisits[i].date \in Dates
       /\ \A i \in 1..Len(u.favResidenciesID) : u.favResidenciesID[i] \in ListingIds
  /\ \A x \in residencies :
       /\ x.id \in 1..Cardinality(residencies)
       /\ x.title \in Titles
       /\ x.address \in Addresses
       /\ x.userEmail \in Emails
       /\ x.createdAt \in 1..now
  /\ now \in 1..MaxClock
  /\ serial \in BOOLEAN
  /\ pc \in [Procs -> {"idle", "createUser", "bookVisit", "cancelBooking", "toFav"}]
  /\ \A p \in Procs : pc[p] = "idle" => (req[p] = NoReq /\ snap[p] = NullSnap)
  /\ bookedSince \subseteq Emails \X ListingIds
  /\ cancelledSince \subseteq Emails \X ListingIds
  /\ cancelIssued \subseteq Emails \X ListingIds
  /\ \A k \in Emails \X ListingIds : favPrev[k] \in {"unset", "present", "absent"}

\* ------------------------------------------------------ specifications
Start ==
  /\ users = {}
  /\ residencies = {}
  /\ now = 1
  /\ pc = [p \in Procs |-> "idle"]
  /\ req = [p \in Procs |-> NoReq]
  /\ snap = [p \in Procs |-> NullSnap]
  /\ last = NoLast
  /\ bookedSince = {}
  /\ cancelledSince = {}
  /\ cancelIssued = {}
  /\ favPrev = [k \in Emails \X ListingIds |-> "unset"]

\* Requests arrive whenever a slot is free.
Init == Start /\ serial = FALSE

\* Each request is sent after the previous response arrived.
SerialInit == Start /\ serial = TRUE

\* Registration.
UserNext(E, N) ==
  \/ \E p \in Procs, e \in E, n \in N : CreateUserLookup(p, e, n)
  \/ \E p \in Procs : CreateUserFinish(p)

\* The routes that touch bookedVisits.
BookingNext(E, I, D) ==
  \/ \E p \in Procs, e \in E, id \in I, d \in D : BookVisitRead(p, e, id, d)
  \/ \E p \in Procs : BookVisitFinish(p)
  \/ \E p \in Procs, e \in E : GetAllBookings(p, e)
  \/ \E p \in Procs, e \in E, id \in I : CancelBookingRead(p, e, id)
  \/ \E p \in Procs : CancelBookingFinish(p)

\* The routes that touch favResidenciesID.
FavNext(E, I) ==
  \/ \E p \in Procs, e \in E, rid \in I : ToFavRead(p, e, rid)
  \/ \E p \in Procs : ToFavFinish(p)
  \/ \E p \in Procs, e \in E : GetAllFavorites(p, e)

\* The residency controller.
ResidencyNext(E, T, A) ==
  \/ \E p \in Procs, t \in T, a \in A, e \in E : CreateResidency(p, t, a, e)
  \/ \E p \in Procs : GetAllResidencies(p)
  \/ \E p \in Procs, i \in 1..(MaxResidencies + 1) : GetResidency(p, i)
  \/ Tick

Next ==
  \/ UserNext(Emails, Names)
  \/ BookingNext(Emails, ListingIds, Dates)
  \/ FavNext(Emails, ListingIds)
  \/ ResidencyNext(Emails, Titles, Addresses)

\* The whole server.
Spec == Init /\ [][Next]_vars

\* The parts of the server, each with the registration route. Handlers of one part
\* read and write nothing of another part, so each part is explored on its own.

\* Booking routes, requests overlapping: both users register, one of them books.
BookingSpec ==
  Init /\ [][UserNext(Emails, {"n1"}) \/ BookingNext({"a@x"}, ListingIds, {"d1"})]_vars

\* Booking routes, one request at a time: both users book, on either date.
BookingSerialSpec ==
  SerialInit /\ [][UserNext(Emails, {"n1"}) \/ BookingNext(Emails, ListingIds, Dates)]_vars

\* Favorites routes, requests overlapping.
FavSpec ==
  Init /\ [][UserNext(Emails, Names) \/ FavNext({"a@x"}, ListingIds)]_vars

\* Favorites routes, one request at a time.
FavSerialSpec ==
  SerialInit /\ [][UserNext(Emails, Names) \/ FavNext(Emails, ListingIds)]_vars

\* Residency routes: each is a single store call, so requests do not overlap.
ResidencySpec ==
  SerialInit /\ [][UserNext(Emails, {"n1"}) \/ ResidencyNext(Emails, {"t1"}, Addresses)]_vars

\* All routes of the user controller, requests overlapping, on one listing and date:
\* one email books and cancels, the other toggles the favorite, each both before and
\* after it registers.
UserRoutesSpec ==
  Init /\ [][\/ UserNext(Emails, {"n1"})
             \/ BookingNext({"a@x"}, {"r1"}, {"d1"})
             \/ FavNext({"b@x"}, {"r1"})]_vars

\* ================================================================ claims
\* The request the latest response answers, and the stored arrays around it.
LastIs(op) == last.op = op
PreVisits == VisitsOf(last.pre, last.req.email)
PostVisits == VisitsOf(last.post, last.req.email)
PreFavs == FavsOf(last.pre, last.req.email)
PostFavs == FavsOf(last.post, last.req.email)
\* How many records of a visit array carry this listing id.
CountOf(visits, id) == Cardinality({i \in 1..Len(visits) : visits[i].id = id})
\* The array without its i-th element (1-based).
Without(visits, i) == SubSeq(visits, 1, i - 1) \o SubSeq(visits, i + 1, Len(visits))

\* C1: with requests served one after the other, a bookVisit(email, id, d2) that
\* follows a successful bookVisit(email, id, d1) with no cancelBooking for that id in
\* between is answered 400 "already booked" and leaves the stored collection, hence
\* the user's bookedVisits (length, records, order), exactly as it was.
C1_SecondBookingRejected ==
  (LastIs("bookVisit") /\ last.booked) =>
    /\ last.status = 400
    /\ last.message = MsgAlreadyBooked
    /\ last.post = last.pre
    /\ PostVisits = PreVisits

\* C1 witness: a second booking of a stored listing, on another date, was rejected.
C1_Witness ==
  /\ LastIs("bookVisit") /\ last.booked /\ last.status = 400
  /\ \E i \in 1..Len(PreVisits) :
       PreVisits[i].id = last.req.id /\ PreVisits[i].date # last.req.date
  /\ Len(PreVisits) = 2

\* C2: a createUser for an email that had a user record when the call was made
\* creates no record and changes no field of any record, and answers 201 "User
\* already registered"; a createUser that does store a record stores exactly one,
\* for an email that had none, so no email ever has two records.
C2_RegisterTwice ==
  LastIs("createUser") =>
    /\ last.req.registered =>
         /\ last.post = last.pre
         /\ last.status = 201
         /\ last.message = MsgAlreadyRegistered
    /\ last.post # last.pre =>
         /\ Matching(last.pre, last.req.email) = {}
         /\ last.pre \subseteq last.post
         /\ Cardinality(last.post) = Cardinality(last.pre) + 1
         /\ last.status = Ok
    /\ Cardinality(Matching(last.post, last.req.email)) <= 1

\* C2 witness: a second registration, under another name, of a user who already has
\* a favorite, was answered "already registered".
C2_Witness ==
  /\ LastIs("createUser") /\ last.req.registered /\ last.status = 201
  /\ \E u \in users :
       /\ u.email = last.req.email
       /\ u.name # last.req.name
       /\ u.favResidenciesID # <<>>

\* C3: whenever getAllBookings(email) answers after a successful cancelBooking(email,
\* id) with no bookVisit for that id since, its list holds no record for id.
C3_CancelThenList ==
  LastIs("getAllBookings") =>
    \A id \in ListingIds :
      <<last.req.email, id>> \in cancelledSince => ~Some(last.body, id)

\* C4 as stated: two consecutive toFav(email, rid) calls leave rid's membership as it
\* was before the first, and after a toggle rid is present in the list.
C4_PresentAfterToggle ==
  (LastIs("toFav") /\ last.req.registered) =>
    /\ Includes(PostFavs, last.req.id)
    /\ last.prevFav # "unset" => (Includes(PostFavs, last.req.id) <=> last.prevFav = "present")

\* C4 amended: with requests served one after the other, a toFav(email, rid) of a
\* registered user flips rid's membership (present afterwards iff absent before), and
\* two consecutive toFav(email, rid) calls leave the membership as it was before the
\* first.
C4_ToggleTwice ==
  (LastIs("toFav") /\ last.req.registered) =>
    /\ last.status = Ok
    /\ Includes(PostFavs, last.req.id) <=> ~Includes(PreFavs, last.req.id)
    /\ last.prevFav # "unset" => (Includes(PostFavs, last.req.id) <=> last.prevFav = "present")

\* C4 witness: the second of two toggles of a listing that started absent removed it
\* again, next to another favorite that stayed.
C4_Witness ==
  /\ LastIs("toFav") /\ last.status = Ok /\ last.prevFav = "absent"
  /\ last.message = MsgRemovedFav
  /\ ~Includes(PostFavs, last.req.id)
  /\ Len(PostFavs) = 1

\* C5: no two stored residencies share (address, userEmail); a createResidency whose
\* pair is stored fails with "A residency with this address already exists" and
\* stores nothing; no route changes or drops a stored residency, getResidency
\* returns the stored record for its id and getAllResidencies returns every stored
\* record.
C5_UniqueAddressPerOwner ==
  /\ \A x, y \in residencies :
       (x.address = y.address /\ x.userEmail = y.userEmail) => x = y
  /\ last.preRes \subseteq last.postRes
  /\ LastIs("createResidency") =>
       ((\E x \in last.preRes : x.address = last.req.address /\ x.userEmail = last.req.email) =>
          /\ last.status = Thrown
          /\ last.message = MsgUniqueAddress
          /\ last.postRes = last.preRes)
  /\ LastIs("getResidency") =>
       \A x \in last.preRes : x.id = last.req.resId => last.body = <<x>>
  /\ LastIs("getAllResidencies") =>
       \A x \in last.preRes : \E i \in 1..Len(last.body) : last.body[i] = x

\* C5 witness: a second create for a stored (address, owner), issued after the clock
\* moved on, failed with the uniqueness error while another owner holds the same
\* address.
C5_Witness ==
  /\ LastIs("createResidency") /\ last.status = Thrown /\ last.message = MsgUniqueAddress
  /\ \E x, y \in residencies :
       /\ x.address = last.req.address /\ x.userEmail = last.req.email
       /\ x.createdAt < now
       /\ y.address = x.address /\ y.userEmail # x.userEmail

\* C6 as stated: getAllResidencies returns every stored residency exactly once, in
\* reverse order of creation.
C6_ReverseCreationOrder ==
  LastIs("getAllResidencies") =>
    /\ last.status = Ok
    /\ Len(last.body) = Cardinality(last.preRes)
    /\ {last.body[i] : i \in 1..Len(last.body)} = last.preRes
    /\ \A i, j \in 1..Len(last.body) : i < j => last.body[i].id > last.body[j].id

\* C6 amended: getAllResidencies answers 200 with every stored residency exactly once
\* (an empty list for an empty store), createdAt never increasing along the list; of
\* two listings with different createdAt the one created later comes first, and
\* listings with the same createdAt come in either order.
C6_OrderedByCreatedAt ==
  LastIs("getAllResidencies") =>
    /\ last.status = Ok
    /\ Len(last.body) = Cardinality(last.preRes)
    /\ {last.body[i] : i \in 1..Len(last.body)} = last.preRes
    /\ \A i, j \in 1..Len(last.body) :
         i < j => /\ last.body[i].createdAt >= last.body[j].createdAt
                  /\ last.body[i].createdAt # last.body[j].createdAt
                       => last.body[i].id > last.body[j].id

\* C6 witness: three listings created at three instants came back newest first.
C6_Witness ==
  /\ LastIs("getAllResidencies") /\ Len(last.body) = 3
  /\ last.body[1].id = 3 /\ last.body[2].id = 2 /\ last.body[3].id = 1
  /\ last.body[1].createdAt > last.body[2].createdAt
  /\ last.body[2].createdAt > last.body[3].createdAt

\* C7: a bookVisit whose findUnique saw no record for id answers success and appends
\* its record to whatever the stored array holds by then, a record for the same id
\* included; so two overlapping bookVisit calls for one (email, id) can both succeed
\* and leave two records (the witness).
C7_CheckOnSnapshotOnly ==
  (LastIs("bookVisit") /\ last.read.found /\ ~Some(last.read.bookedVisits, last.req.id)) =>
    /\ last.status = Ok
    /\ PostVisits = Append(PreVisits, [id |-> last.req.id, date |-> last.req.date])

\* C7 witness: a bookVisit answered success after another bookVisit for the same
\* (email, id) had answered success; it had read the list before that one's write,
\* and the list now holds two records for id.
C7_Witness ==
  /\ LastIs("bookVisit") /\ last.status = Ok /\ last.booked
  /\ ~Some(last.read.bookedVisits, last.req.id)
  /\ CountOf(PreVisits, last.req.id) = 1
  /\ CountOf(VisitsOf(users, last.req.email), last.req.id) = 2

\* C8: a successful cancelBooking stores the array it read, less the first record
\* for id, whatever the stored array held by then; so a record pushed by a bookVisit
\* between the cancel's read and write is lost (the witness).
C8_CancelWritesBackSnapshot ==
  (LastIs("cancelBooking") /\ last.status = Ok) =>
    \E i \in 1..Len(last.read.bookedVisits) :
      /\ last.read.bookedVisits[i].id = last.req.id
      /\ \A j \in 1..(i - 1) : last.read.bookedVisits[j].id # last.req.id
      /\ PostVisits = Without(last.read.bookedVisits, i)

\* C8 witness: after cancelBooking(email, a) answered, listing b, whose bookVisit had
\* answered success and for which no cancel was ever issued, is not in the list.
C8_Witness ==
  /\ LastIs("cancelBooking") /\ last.status = Ok
  /\ \E b \in ListingIds \ {last.req.id} :
       /\ <<last.req.email, b>> \in bookedSince
       /\ <<last.req.email, b>> \notin cancelIssued
       /\ Some(PreVisits, b)
       /\ ~Some(VisitsOf(users, last.req.email), b)

C10_OwnerExists ==
  /\ \A x \in residencies : Matching(users, x.userEmail) # {}
  /\ \A u \in last.pre : Matching(last.post, u.email) # {}
  /\ LastIs("createResidency") =>
       /\ Matching(last.pre, last.req.email) = {} =>
            /\ last.status = Thrown
            /\ last.message # MsgUniqueAddress
            /\ last.postRes = last.preRes
       /\ last.status = Ok => Matching(last.pre, last.req.email) # {}

\* C10 witness: a create for an unregistered owner failed while another user and
\* that user's listing at the same address were stored.
C10_Witness ==
  /\ LastIs("createResidency") /\ last.status = Thrown /\ last.message = MsgNoOwner
  /\ \E x \in residencies : x.address = last.req.address
  /\ last.postRes = last.preRes

\* C11: in every state, whatever the interleaving of overlapping createUser calls,
\* no email has more than one user record; a createUser whose lookup found no
\* record but whose email is stored by the time of its create fails with the
\* uniqueness error and stores nothing.
C11_OneRecordPerEmail ==
  /\ \A e \in Emails : Cardinality(Matching(users, e)) <= 1
  /\ (LastIs("createUser") /\ ~last.read.found
        /\ Matching(last.pre, last.req.email) # {}) =>
       /\ last.status = Thrown
       /\ last.message = MsgUniqueEmail
       /\ last.post = last.pre

\* C11 witness: two createUser calls for one email, under different names, both
\* looked up before either created; the second create failed and the first
\* caller's record is the only one for that email.
C11_Witness ==
  /\ LastIs("createUser") /\ ~last.read.found /\ ~last.req.registered
  /\ last.status = Thrown /\ last.message = MsgUniqueEmail
  /\ \E u \in users : u.email = last.req.email /\ u.name # last.req.name
  /\ Cardinality(Matching(users, last.req.email)) = 1

\* C12: in every state, whatever the sequence and interleaving of toFav calls, no
\* user's favResidenciesID carries a listing id more than once.
C12_FavoritesDeduplicated ==
  \A u \in users : \A rid \in ListingIds :
    Cardinality({i \in 1..Len(u.favResidenciesID) : u.favResidenciesID[i] = rid}) <= 1

\* C13: a bookVisit, cancelBooking or toFav whose email had no user record when the
\* call was made ends in the generic failure of the null dereference, not in a
\* failed update, and leaves the store as it was: no user record is created and
\* every user's bookedVisits and favResidenciesID are unchanged.
C13_UnregisteredChangesNothing ==
  (last.op \in {"bookVisit", "cancelBooking", "toFav"} /\ ~last.req.registered) =>
    /\ ~last.read.found
    /\ last.status = Thrown
    /\ last.message = MsgNullDeref
    /\ last.post = last.pre
    /\ Cardinality(last.post) = Cardinality(last.pre)
    /\ \A u \in last.pre : \E v \in last.post :
         /\ v.email = u.email
         /\ v.bookedVisits = u.bookedVisits
         /\ v.favResidenciesID = u.favResidenciesID
    /\ last.postRes = last.preRes

\* C13 witness: a bookVisit for an email that registered only after the lookup
\* failed, while the other user's record, with a favorite stored, stayed as it was.
C13_Witness ==
  /\ LastIs("bookVisit") /\ ~last.req.registered
  /\ last.status = Thrown /\ last.message = MsgNullDeref
  /\ \E u \in users : u.email = last.req.email /\ u.bookedVisits = <<>>
  /\ \E u \in users : u.email # last.req.email /\ u.favResidenciesID # <<>>

\* The same case for cancelBooking: the other user has a favorite stored.
C13_WitnessCancel ==
  /\ LastIs("cancelBooking") /\ ~last.req.registered
  /\ last.status = Thrown /\ last.message = MsgNullDeref
  /\ \E u \in users : u.email # last.req.email /\ u.favResidenciesID # <<>>

\* The same case for toFav: the email registered after the lookup, and the other
\* user has a booking stored.
C13_WitnessFav ==
  /\ LastIs("toFav") /\ ~last.req.registered
  /\ last.status = Thrown /\ last.message = MsgNullDeref
  /\ \E u \in users : u.email = last.req.email /\ u.favResidenciesID = <<>>
  /\ \E u \in users : u.email # last.req.email /\ u.bookedVisits # <<>>

====
